---- MODULE Spec2Model ----
(***************************************************************************)
(* A model of feedbot: the filters (feedbot/filters.py), the Feed and its  *)
(* filter chain (feedbot/feed.py) and the FeedBot with its bounded         *)
(* seen-history and its commands (feedbot/bot.py).                         *)
(*                                                                         *)
(* Filters are Python objects without __eq__: `==`, `in` and list.remove   *)
(* compare them by identity.  The model therefore keeps a heap of filter   *)
(* objects; a chain is a sequence of references into the heap.             *)
(***************************************************************************)
EXTENDS Integers, Sequences, FiniteSets, TLC

VARIABLES
    heap,           \* reference -> filter object, for the objects still referenced
    feeds,          \* name -> Feed (FeedBot.feeds, or the one Feed under test)
    entry_history,  \* FeedBot.entry_history: deque(maxlen = capacity) of links
    recorded,       \* history of appends: the distinct links, oldest append first
    shown,          \* the set of links ever displayed in the channel
    dumped,         \* feed name -> links of the last dump that displayed its whole list
    store,          \* the content of the data file
    last            \* what the last operation was, its inputs and its results

vars == <<heap, feeds, entry_history, recorded, shown, dumped, store, last>>

(***************************************************************************)
(* Bounds of the model.                                                    *)
(***************************************************************************)
MaxLink == 3            \* entry links are 1..MaxLink
MaxEntries == 2         \* entries in one fetched document
MaxChain == 2           \* filters in one chain
HistoryCapacity == 2    \* settings.FEED_HISTORY_QUEUE_LENGTH, scaled down

NoRef == 0              \* Python's None as a reference

Range(s) == {s[i] : i \in DOMAIN s}

SeqsUpTo(S, n) == UNION {[1..k -> S] : k \in 0..n}

(***************************************************************************)
(* The heap.  A new object gets a reference no live object has; an object  *)
(* no feed refers to any more is dropped, as the interpreter drops it.     *)
(***************************************************************************)
NewRef(h) == CHOOSE r \in 1..(Cardinality(DOMAIN h) + 1) : r \notin DOMAIN h

Alloc(h, f) == [r \in DOMAIN h \cup {NewRef(h)} |-> IF r \in DOMAIN h THEN h[r] ELSE f]

Live(fds) ==
    UNION {Range(fds[n].filters) \cup ({fds[n].age_filter} \ {NoRef}) : n \in DOMAIN fds}

Collect(h, fds) == [r \in DOMAIN h \cap Live(fds) |-> h[r]]

HeapOf(fs) == [r \in 1..Len(fs) |-> fs[r]]

(***************************************************************************)
(* Strings are sequences of characters; "<i>" stands for a markup tag.     *)
(***************************************************************************)
lower(s) == [i \in DOMAIN s |-> IF s[i] = "A" THEN "a" ELSE IF s[i] = "B" THEN "b" ELSE s[i]]

\* BeautifulSoup(string).get_text(): the text with the tags dropped
get_text(s) == SelectSeq(s, LAMBDA c : c # "<i>")

\* Python's `term in text` on strings
Contains(text, term) ==
    \E i \in 0..(Len(text) - Len(term)) : SubSeq(text, i + 1, i + Len(term)) = term

(***************************************************************************)
(* Filters (filters.py).                                                   *)
(***************************************************************************)
AGE_DEFAULT == 5

\* NotFilter(terms): FilterBase.__init__ lower-cases the term
NotFilter(terms) == [cls |-> "NotFilter", terms |-> lower(terms), window |-> 0]

\* AgeFilter(minutes): timedelta(minutes=minutes or 5), kept in minutes
AgeFilter(minutes) ==
    [cls |-> "AgeFilter", terms |-> <<>>, window |-> IF minutes = 0 THEN AGE_DEFAULT ELSE minutes]

\* AgeFilter.set_window(minutes)
set_window(f, minutes) == [f EXCEPT !.window = minutes]

MINUTES_PER_DAY == 1440

\* AgeFilter.get_window(): self.window.seconds / 60.0, the seconds field of the
\* normalised timedelta only (0 <= seconds < 86400), the days being left out
get_window(f) == f.window % MINUTES_PER_DAY

\* NotFilter.discard_entry
NotFilter_discard_entry(f, entry) ==
    Contains(get_text(lower(entry.summary) \o <<" ">> \o lower(entry.title) \o <<" ">>), f.terms)

SECONDS_PER_MINUTE == 60

\* AgeFilter.discard_entry with the boundary left out
AgeFilter_discard_entry_exclusive(f, entry) ==
    IF entry.has_pub THEN entry.age > f.window * SECONDS_PER_MINUTE ELSE FALSE

\* AgeFilter.discard_entry with fail_closed=False; entry.age is
\* utc_now() - published_time in seconds, the window a timedelta of minutes
AgeFilter_discard_entry(f, entry) ==
    IF entry.has_pub THEN entry.age >= f.window * SECONDS_PER_MINUTE ELSE FALSE

discard_entry(f, entry) ==
    IF f.cls = "NotFilter" THEN NotFilter_discard_entry(f, entry)
    ELSE AgeFilter_discard_entry(f, entry)

(***************************************************************************)
(* Feed (feed.py).  A Feed is [name, url, filters, age_filter]; filters is *)
(* a sequence of references, age_filter a reference or NoRef (the          *)
(* attribute is absent until set_age_filter sets it; getattr(..., None)    *)
(* reads both the same).                                                   *)
(***************************************************************************)
Feed(name, url, filters) ==
    [name |-> name, url |-> url, filters |-> filters, age_filter |-> NoRef]

\* all([...]) with only the first filter of the chain asked
first_not_discarded(h, chain, entry) ==
    chain = <<>> \/ discard_entry(h[Head(chain)], entry) = FALSE

\* all([...]) over the chain, left to right
RECURSIVE all_not_discarded(_, _, _)
all_not_discarded(h, chain, entry) ==
    IF chain = <<>> THEN TRUE
    ELSE (discard_entry(h[Head(chain)], entry) = FALSE) /\ all_not_discarded(h, Tail(chain), entry)

\* Feed._accept_entry
accept_entry(h, fd, entry) == all_not_discarded(h, fd.filters, entry)

\* [entry for entry in stream.entries if self._accept_entry(entry)]
RECURSIVE filtered_entries(_, _, _)
filtered_entries(h, fd, entries) ==
    IF entries = <<>> THEN <<>>
    ELSE (IF accept_entry(h, fd, Head(entries)) THEN <<Head(entries)>> ELSE <<>>)
         \o filtered_entries(h, fd, Tail(entries))

\* Feed.get_raw_feed / get_filtered_feed on what feedparser returned: a document
\* with entries, a malformed document (bozo), or a document without 'entries'
get_filtered_feed(h, fd, doc) ==
    IF doc.kind = "bozo" THEN [exc |-> "FeedDataError", entries |-> <<>>]
    ELSE IF doc.kind = "no_entries" THEN [exc |-> "FeedDataError", entries |-> <<>>]
    ELSE [exc |-> "none", entries |-> filtered_entries(h, fd, doc.entries)]

\* x == y where the filter classes had an __eq__ comparing kind and configuration
py_eq_by_value(h, x, y) ==
    x = y \/ (x \in DOMAIN h /\ y \in DOMAIN h /\ h[x] = h[y])

\* x == y on filter objects (or None): FilterBase and its subclasses define no
\* __eq__ and no __cmp__, so Python compares the objects' identities
py_eq(h, x, y) == x = y

\* list.remove(x): drop the first element equal to x
RECURSIVE list_remove(_, _, _)
list_remove(h, s, x) ==
    IF s = <<>> THEN <<>>
    ELSE IF py_eq(h, Head(s), x) THEN Tail(s)
    ELSE <<Head(s)>> \o list_remove(h, Tail(s), x)

\* Feed.add_filter
Feed_add_filter(fd, ref) == [fd EXCEPT !.filters = Append(@, ref)]

\* Feed.remove_filter without the two lines that clear the back-reference
Feed_remove_filter_keep_ref(h, fd, ref) ==
    IF \E i \in DOMAIN fd.filters : py_eq(h, fd.filters[i], ref)
    THEN [exc |-> "none", feed |-> [fd EXCEPT !.filters = list_remove(h, @, ref)]]
    ELSE [exc |-> "ValueError", feed |-> fd]

\* Feed.remove_filter: the back-reference is cleared first, then list.remove,
\* which raises ValueError when no element of the chain equals the object
Feed_remove_filter(h, fd, ref) ==
    LET fd1 == IF py_eq(h, ref, fd.age_filter) THEN [fd EXCEPT !.age_filter = NoRef] ELSE fd
    IN  IF \E i \in DOMAIN fd1.filters : py_eq(h, fd1.filters[i], ref)
        THEN [exc |-> "none", feed |-> [fd1 EXCEPT !.filters = list_remove(h, @, ref)]]
        ELSE [exc |-> "ValueError", feed |-> fd1]

\* Feed.set_age_filter: the append is not under the else
Feed_set_age_filter(h, fd, minutes) ==
    LET attached == fd.age_filter # NoRef
        h1 == IF attached
              THEN [h EXCEPT ![fd.age_filter] = set_window(@, minutes)]
              ELSE Alloc(h, AgeFilter(minutes))
        ref == IF attached THEN fd.age_filter ELSE NewRef(h)
    IN  [heap |-> h1,
         feed |-> [fd EXCEPT !.age_filter = ref, !.filters = Append(@, ref)]]

(***************************************************************************)
(* The seen-history of the FeedBot (bot.py).                               *)
(***************************************************************************)
\* a bounded list that refuses a new element when full
deque_append_refusing(d, x) ==
    IF Len(d) >= HistoryCapacity THEN d ELSE Append(d, x)

\* deque(maxlen=HistoryCapacity).append(x): when full, the element at the left
\* end is discarded
deque_append(d, x) ==
    IF HistoryCapacity = 0 THEN d
    ELSE IF Len(d) = HistoryCapacity THEN Append(Tail(d), x)
    ELSE Append(d, x)

\* _seen_entry looking at the newest link only
seen_entry_newest(hist, link) == hist # <<>> /\ hist[Len(hist)] = link

\* FeedBot._seen_entry
seen_entry(hist, link) == link \in Range(hist)

\* _add_entry_to_history without its membership test
add_entry_to_history_unchecked(hist, link) == deque_append(hist, link)

\* FeedBot._add_entry_to_history
add_entry_to_history(hist, link) ==
    IF link \notin Range(hist) THEN deque_append(hist, link) ELSE hist

(***************************************************************************)
(* dump_feed and dump_all (bot.py).                                        *)
(***************************************************************************)
DEFAULT_STORY_LIMIT == 3

Min(a, b) == IF a < b THEN a ELSE b

Max(a, b) == IF a > b THEN a ELSE b

\* a slice that cuts nothing off
slice_whole(s, k) == s

\* the slice s[:k]; a negative k counts from the end
slice_to(s, k) ==
    IF k >= 0 THEN SubSeq(s, 1, Min(k, Len(s))) ELSE SubSeq(s, 1, Max(Len(s) + k, 0))

\* _print_feed without the test that skips an entry seen meanwhile
RECURSIVE print_feed_no_recheck(_, _)
print_feed_no_recheck(hist, entries) ==
    IF entries = <<>> THEN [hist |-> hist, displayed |-> <<>>]
    ELSE LET r == print_feed_no_recheck(add_entry_to_history(hist, Head(entries).link),
                                        Tail(entries))
         IN  [hist |-> r.hist, displayed |-> <<Head(entries)>> \o r.displayed]

\* FeedBot._print_feed: the loop over the entries; an entry seen by now is
\* skipped, any other is recorded and printed
RECURSIVE print_feed(_, _)
print_feed(hist, entries) ==
    IF entries = <<>> THEN [hist |-> hist, displayed |-> <<>>]
    ELSE IF seen_entry(hist, Head(entries).link) THEN print_feed(hist, Tail(entries))
    ELSE LET r == print_feed(add_entry_to_history(hist, Head(entries).link), Tail(entries))
         IN  [hist |-> r.hist, displayed |-> <<Head(entries)>> \o r.displayed]

\* FeedBot.dump_feed.  arg is the parsed command: the feed name and the limit,
\* which is absent, not an integer, or an integer.  The result: the history,
\* the filtered list, the entries displayed, the messages sent and the
\* exception that left the handler (FeedDataError is not caught).
dump_feed(h, fds, hist, name, limit, doc) ==
    LET quiet == [hist |-> hist, filtered |-> <<>>, displayed |-> <<>>]
    IN  IF limit.kind = "bad"
        THEN quiet @@ [msgs |-> <<"SORRY">>, exc |-> "none"]
        ELSE IF name \notin DOMAIN fds
        THEN quiet @@ [msgs |-> <<"FEED_NOT_FOUND_ERROR">>, exc |-> "none"]
        ELSE LET got == get_filtered_feed(h, fds[name], doc)
                 wanted == IF limit.kind = "absent" THEN DEFAULT_STORY_LIMIT ELSE limit.n
                 entries_limit == Min(Len(got.entries), wanted)
                 feed_entries == slice_to(got.entries, entries_limit)
                 unseen_entries == SelectSeq(feed_entries, LAMBDA e : ~seen_entry(hist, e.link))
                 printed == print_feed(hist, unseen_entries)
             IN  IF got.exc # "none"
                 THEN quiet @@ [msgs |-> <<>>, exc |-> got.exc]
                 ELSE IF unseen_entries # <<>>
                 THEN [hist |-> printed.hist, filtered |-> got.entries,
                       displayed |-> printed.displayed,
                       msgs |-> <<"FEED_HEADER">>, exc |-> "none"]
                 ELSE [hist |-> hist, filtered |-> got.entries, displayed |-> <<>>,
                       msgs |-> <<"NO_NEW_ENTRIES">>, exc |-> "none"]

\* FeedBot.dump_all: dump_feed for every feed in turn, docs[n] being what the
\* fetch of feed n returns; an exception of a dump ends the loop
RECURSIVE dump_all(_, _, _, _, _)
dump_all(h, fds, hist, names, docs) ==
    IF names = <<>>
    THEN [hist |-> hist, filtered |-> <<>>, displayed |-> <<>>, msgs |-> <<>>, exc |-> "none"]
    ELSE LET one == dump_feed(h, fds, hist, Head(names),
                              [kind |-> "absent", n |-> 0], docs[Head(names)])
             rest == dump_all(h, fds, one.hist, Tail(names), docs)
         IN  IF one.exc # "none"
             THEN [hist |-> one.hist, filtered |-> one.filtered,
                   displayed |-> one.displayed, msgs |-> one.msgs, exc |-> one.exc]
             ELSE [hist |-> rest.hist, filtered |-> one.filtered \o rest.filtered,
                   displayed |-> one.displayed \o rest.displayed,
                   msgs |-> one.msgs \o <<"FEED_SEPERATOR">> \o rest.msgs,
                   exc |-> rest.exc]

(***************************************************************************)
(* Inputs.                                                                 *)
(***************************************************************************)
Links == 1..MaxLink

\* an entry published the given number of minutes ago; age is in seconds
Entry(link, summary, title, has_pub, minutes) ==
    [link |-> link, summary |-> summary, title |-> title, has_pub |-> has_pub,
     age |-> minutes * SECONDS_PER_MINUTE]

\* entries of link l: with and without the letter a, with markup, published
\* 10 or 100 minutes ago or carrying no publication time
EntriesOf(l) ==
    {Entry(l, <<"a">>, <<"b">>, TRUE, 10),
     Entry(l, <<"B", "<i>", "c">>, <<"b">>, TRUE, 100),
     Entry(l, <<"B", "<i>", "c">>, <<"b">>, FALSE, 0)}

\* what feedparser.parse may return, over the entries of E
Documents(E) ==
    {[kind |-> "ok", entries |-> es] : es \in SeqsUpTo(E, MaxEntries)}
    \cup {[kind |-> "bozo", entries |-> <<>>], [kind |-> "no_entries", entries |-> <<>>]}

\* search terms as typed
Terms == {<<"A">>, <<"b", "c">>}

\* windows in minutes as typed
Minutes == {0, 20}

NewFilters == {NotFilter(t) : t \in Terms} \cup {AgeFilter(m) : m \in Minutes}

Names == {"f1", "f2"}

Url(name) == IF name = "f1" THEN "u1" ELSE "u2"

NoDoc == [kind |-> "none", entries |-> <<>>]

NoLimit == [kind |-> "absent", n |-> 0]

NoDump == [feed |-> "", links |-> {}]

\* self.feeds.values(): the feeds in the dictionary's order
FeedOrder == <<"f1", "f2">>

\* no data file
NoStore == [exists |-> FALSE, data |-> <<>>, length |-> 0]

\* no filter object, no dictionary, nothing deserialized
NoFilter == [cls |-> "", terms |-> <<>>, window |-> 0]

NoRecord == [class |-> "", name |-> "", url |-> "", filters |-> <<>>, keys |-> {},
             args |-> <<>>, kwargs |-> <<>>]

NoMade == [exc |-> "none", name |-> "", url |-> "", filters |-> <<>>, filter |-> NoFilter]

\* the record of the last operation, before any operation
NoLast ==
    [op |-> "init", feed |-> "", ref |-> NoRef, arg |-> 0, exc |-> "none",
     preFeeds |-> <<>>, preHeap |-> <<>>, doc |-> NoDoc, out |-> <<>>,
     link |-> 0, res |-> FALSE, limit |-> NoLimit, filtered |-> <<>>,
     displayed |-> <<>>, msgs |-> <<>>, preHist |-> <<>>, preShown |-> {},
     preDumped |-> NoDump, preStore |-> NoStore, save |-> "none",
     obj |-> NoFilter, rec |-> NoRecord, made |-> NoMade, num |-> 0, url |-> "",
     typed |-> NoLimit, kind |-> ""]

(***************************************************************************)
(* The data file (bot.py: to_dict, from_dict, _save_feed_data,             *)
(* _load_feed_data).  The file is [exists, data, length]: data is the list *)
(* of feed dictionaries whose JSON text was written last, at the start of  *)
(* the file, and length is the length of the file in characters.  The file *)
(* is opened 'r+' and never truncated, so it may be longer than that text. *)
(***************************************************************************)
Digits == "0123456789"

\* str(n) for a natural number
RECURSIVE str(_)
str(n) ==
    IF n < 10 THEN SubSeq(Digits, n + 1, n + 1)
    ELSE str(n \div 10) \o SubSeq(Digits, (n % 10) + 1, (n % 10) + 1)

\* the characters of a term as one string
RECURSIVE join(_)
join(chars) == IF chars = <<>> THEN "" ELSE Head(chars) \o join(Tail(chars))

\* FilterBase.to_dict, NotFilter.to_dict, AgeFilter.to_dict: NotFilter has the
\* key 'args', AgeFilter the key 'kwargs' with get_window() as minutes
Filter_to_dict(f) ==
    IF f.cls = "NotFilter"
    THEN [class |-> "NotFilter", args |-> <<f.terms>>, kwargs |-> <<>>]
    ELSE [class |-> "AgeFilter", args |-> <<>>, kwargs |-> <<<<"minutes", get_window(f)>>>>]

\* the keys of a feed dictionary
FeedKeys == {"class", "name", "url", "filters"}

\* Feed.to_dict; keys is the set of the dictionary's keys
Feed_to_dict(h, fd) ==
    [class |-> "Feed", name |-> fd.name, url |-> fd.url,
     filters |-> [i \in DOMAIN fd.filters |-> Filter_to_dict(h[fd.filters[i]])],
     keys |-> FeedKeys]

\* a dictionary without the key 'class': .get('class') gives None
NoClass == "<None>"

\* what the names of the module are bound to (_get_filter_class is getattr on
\* the module): the filter classes, their base class, and what the module
\* imports, here timedelta (a class that is no filter) and sys (not callable)
FilterClasses == {"NotFilter", "AgeFilter"}

ModuleNames == FilterClasses \cup {"FilterBase", "timedelta", "sys"}

\* FilterBase(terms), the instance of the base class
FilterBaseObject(terms) == [cls |-> "FilterBase", terms |-> lower(terms), window |-> 0]

\* timedelta(minutes=m) or timedelta(hours=m), kept in minutes
TimedeltaObject(minutes) == [cls |-> "timedelta", terms |-> <<>>, window |-> minutes]

MINUTES_PER_HOUR == 60

\* cls(*args, **kwargs): the object, or TypeError.  args are strings that are
\* not empty, kwargs pairs of a keyword and a number.
construct(name, args, kwargs) ==
    LET TypeError == [exc |-> "TypeError", filter |-> NoFilter]
    IN  IF name \in {"NotFilter", "FilterBase"}
        THEN IF Len(args) = 1 /\ kwargs = <<>>
             THEN [exc |-> "none",
                   filter |-> IF name = "NotFilter" THEN NotFilter(args[1])
                              ELSE FilterBaseObject(args[1])]
             ELSE TypeError
        ELSE IF name = "AgeFilter"
        THEN IF args = <<>> /\ kwargs = <<>> THEN [exc |-> "none", filter |-> AgeFilter(0)]
             ELSE IF args = <<>> /\ Len(kwargs) = 1 /\ kwargs[1][1] = "minutes"
             THEN [exc |-> "none", filter |-> AgeFilter(kwargs[1][2])]
             ELSE TypeError
        ELSE IF name = "timedelta"
        THEN IF args = <<>> /\ kwargs = <<>> THEN [exc |-> "none", filter |-> TimedeltaObject(0)]
             ELSE IF args = <<>> /\ Len(kwargs) = 1 /\ kwargs[1][1] = "minutes"
             THEN [exc |-> "none", filter |-> TimedeltaObject(kwargs[1][2])]
             ELSE IF args = <<>> /\ Len(kwargs) = 1 /\ kwargs[1][1] = "hours"
             THEN [exc |-> "none", filter |-> TimedeltaObject(MINUTES_PER_HOUR * kwargs[1][2])]
             ELSE TypeError
        ELSE TypeError

\* FilterBase._get_filter_class and FilterBase.from_dict: getattr raises
\* TypeError for None and AttributeError for a name the module does not
\* have, both before the try; a TypeError of the call becomes ValueError
Filter_from_dict(d) ==
    IF d.class = NoClass THEN [exc |-> "TypeError", filter |-> NoFilter]
    ELSE IF d.class \notin ModuleNames THEN [exc |-> "AttributeError", filter |-> NoFilter]
    ELSE IF construct(d.class, d.args, d.kwargs).exc = "TypeError"
    THEN [exc |-> "ValueError", filter |-> NoFilter]
    ELSE construct(d.class, d.args, d.kwargs)

\* the smallest element of a set of numbers that is not empty
Least(S) == CHOOSE x \in S : \A y \in S : x <= y

\* Feed.from_dict: KeyError, ValueError and AssertionError become
\* DeserializationError, any other exception of a filter goes through; the
\* result holds the filter objects made
Feed_from_dict(d) ==
    LET made == [i \in DOMAIN d.filters |-> Filter_from_dict(d.filters[i])]
        bad == {i \in DOMAIN d.filters : made[i].exc # "none"}
        raise(e) == [exc |-> e, name |-> "", url |-> "", filters |-> <<>>]
    IN  IF "class" \notin d.keys \/ d.class # "Feed" \/ "filters" \notin d.keys
        THEN raise("DeserializationError")
        ELSE IF bad # {}
        THEN raise(IF made[Least(bad)].exc = "ValueError" THEN "DeserializationError"
                   ELSE made[Least(bad)].exc)
        ELSE IF "name" \notin d.keys \/ "url" \notin d.keys THEN raise("DeserializationError")
        ELSE [exc |-> "none", name |-> d.name, url |-> d.url,
              filters |-> [i \in DOMAIN d.filters |-> made[i].filter]]

\* self.feeds.values(), as names
values(fds) == SelectSeq(FeedOrder, LAMBDA n : n \in DOMAIN fds)

\* [feed.to_dict() for feed in self.feeds.values()]
feed_data(h, fds) == [i \in DOMAIN values(fds) |-> Feed_to_dict(h, fds[values(fds)[i]])]

\* ", ".join(texts)
RECURSIVE comma_join(_)
comma_join(texts) ==
    IF texts = <<>> THEN ""
    ELSE IF Len(texts) = 1 THEN texts[1]
    ELSE texts[1] \o ", " \o comma_join(Tail(texts))

\* json.dumps of a filter dictionary: the keys it has, 'args' a list of
\* strings, 'kwargs' keywords with numbers; a float of whole minutes prints
\* as n.0
dumps_filter(d) ==
    LET items ==
            (IF d.class = NoClass THEN <<>> ELSE <<"\"class\": \"" \o d.class \o "\"">>)
            \o (IF d.args = <<>> THEN <<>>
                ELSE <<"\"args\": ["
                       \o comma_join([i \in DOMAIN d.args |-> "\"" \o join(d.args[i]) \o "\""])
                       \o "]">>)
            \o (IF d.kwargs = <<>> THEN <<>>
                ELSE <<"\"kwargs\": {"
                       \o comma_join([i \in DOMAIN d.kwargs |->
                              "\"" \o d.kwargs[i][1] \o "\": " \o str(d.kwargs[i][2]) \o ".0"])
                       \o "}">>)
    IN  "{" \o comma_join(items) \o "}"

\* json.dumps of a feed dictionary
dumps_feed(d) ==
    "{\"class\": \"Feed\", \"name\": \"" \o d.name \o "\", \"url\": \"" \o d.url
    \o "\", \"filters\": [" \o comma_join([i \in DOMAIN d.filters |-> dumps_filter(d.filters[i])])
    \o "]}"

\* json.dumps(feed_data)
dumps(data) == "[" \o comma_join([i \in DOMAIN data |-> dumps_feed(data[i])]) \o "]"

\* FeedBot._save_feed_data: open(path, 'r+') fails when there is no file;
\* write() overwrites from the start and leaves what lies beyond
save_feed_data(h, fds, st) ==
    IF ~st.exists THEN [ok |-> FALSE, store |-> st]
    ELSE [ok |-> TRUE,
          store |-> [exists |-> TRUE, data |-> feed_data(h, fds),
                     length |-> Max(st.length, Len(dumps(feed_data(h, fds))))]]

\* json.load(file): the text parses when the file ends where the JSON ends
json_loads_ok(st) == st.exists /\ st.length = Len(dumps(st.data))

\* the loop of _load_feed_data: Feed.from_dict for every record, each filter
\* a new object, feeds[name] = feed; the loop ends at the first record that
\* raises, the feeds made before it staying in the dictionary
RECURSIVE load_feeds(_, _, _)
load_feeds(h, fds, data) ==
    IF data = <<>> THEN [ok |-> TRUE, heap |-> h, feeds |-> fds]
    ELSE LET made == Feed_from_dict(Head(data))
             n == Len(made.filters)
             base == Cardinality(DOMAIN h)
             h1 == [r \in 1..(base + n) |-> IF r <= base THEN h[r] ELSE made.filters[r - base]]
             fd == Feed(made.name, made.url, [i \in 1..n |-> base + i])
             fds1 == [m \in DOMAIN fds \cup {made.name} |->
                         IF m = made.name THEN fd ELSE fds[m]]
         IN  IF made.exc # "none" THEN [ok |-> FALSE, heap |-> h, feeds |-> fds]
             ELSE load_feeds(h1, fds1, Tail(data))

\* FeedBot._load_feed_data: every exception is caught and the error message
\* sent; the dictionary built so far is returned
load_feed_data(st) ==
    LET r == load_feeds(<<>>, <<>>, st.data)
    IN  IF ~json_loads_ok(st)
        THEN [heap |-> <<>>, feeds |-> <<>>, msgs |-> <<"FEED_DATA_LOAD_ERROR">>]
        ELSE [heap |-> Collect(r.heap, r.feeds), feeds |-> r.feeds,
              msgs |-> IF r.ok THEN <<>> ELSE <<"FEED_DATA_LOAD_ERROR">>]

(***************************************************************************)
(* The commands that change the feeds (bot.py).  Each gives the heap, the  *)
(* feeds, the data file, the messages sent and whether the file was        *)
(* written ("ok"), the write failed ("failed") or was not tried ("none").  *)
(***************************************************************************)
get_feed_urls(fds) == {fds[n].url : n \in DOMAIN fds}

\* the message sent before the save is tried
saved_acknowledged_first(h, fds, st, message) ==
    LET sv == save_feed_data(h, fds, st)
    IN  [heap |-> Collect(h, fds), feeds |-> fds, store |-> sv.store,
         msgs |-> IF sv.ok THEN <<message>> ELSE <<message, "FEED_SAVE_DATA_ERROR">>,
         save |-> IF sv.ok THEN "ok" ELSE "failed", exc |-> "none", doc |-> NoDoc, url |-> ""]

\* self._save_feed_data() and the message that follows; IOError is passed over
saved(h, fds, st, message) ==
    LET sv == save_feed_data(h, fds, st)
    IN  [heap |-> Collect(h, fds), feeds |-> fds, store |-> sv.store,
         msgs |-> IF sv.ok THEN <<message>> ELSE <<"FEED_SAVE_DATA_ERROR">>,
         save |-> IF sv.ok THEN "ok" ELSE "failed", exc |-> "none", doc |-> NoDoc, url |-> ""]

\* a command that ends with one message and changes nothing
refused(h, fds, st, message) ==
    [heap |-> h, feeds |-> fds, store |-> st, msgs |-> <<message>>, save |-> "none",
     exc |-> "none", doc |-> NoDoc, url |-> ""]

\* messages.FEED_PARSE_ERROR.format(error=error)
FEED_PARSE_ERROR(error) == "FEED_PARSE_ERROR: " \o error

\* add_feed storing the feed before it fetches it
add_new_feed_stored_first(h, fds, st, name, url, doc) ==
    LET feed == Feed(name, url, <<NewRef(h)>>)
        h1 == Alloc(h, AgeFilter(90))
        fds1 == [n \in DOMAIN fds \cup {name} |-> IF n = name THEN feed ELSE fds[n]]
    IN  IF doc.kind = "bozo"
        THEN [refused(h1, fds1, st, FEED_PARSE_ERROR(doc.error)) EXCEPT !.doc = doc, !.url = url]
        ELSE [saved(h1, fds1, st, "OKAY") EXCEPT !.doc = doc, !.url = url]

\* the part of add_feed that follows the test of the name and the url: the
\* feed is made and fetched, a malformed document making get_raw_feed raise
\* FeedDataError(doc.error); a feed that is well is stored and saved
add_new_feed(h, fds, st, name, url, doc) ==
    IF doc.kind = "bozo"
    THEN [refused(h, fds, st, FEED_PARSE_ERROR(doc.error)) EXCEPT !.doc = doc, !.url = url]
    ELSE LET feed == Feed(name, url, <<NewRef(h)>>)
         IN  [saved(Alloc(h, AgeFilter(90)),
                    [n \in DOMAIN fds \cup {name} |-> IF n = name THEN feed ELSE fds[n]],
                    st, "OKAY") EXCEPT !.doc = doc, !.url = url]

\* add_feed testing the name only
add_feed_by_name_only(h, fds, st, name, url, doc) ==
    IF name \in DOMAIN fds
    THEN [refused(h, fds, st, "FEED_EXISTS_ERROR") EXCEPT !.url = url]
    ELSE add_new_feed(h, fds, st, name, url, doc)

\* FeedBot.add_feed with a name and a url; doc is what the fetch returns;
\* nothing is fetched when the name or the url is there already
add_feed(h, fds, st, name, url, doc) ==
    IF name \in DOMAIN fds \/ url \in get_feed_urls(fds)
    THEN [refused(h, fds, st, "FEED_EXISTS_ERROR") EXCEPT !.url = url]
    ELSE add_new_feed(h, fds, st, name, url, doc)

\* FeedBot._url2name: the first feed of the dictionary that has the url
url2name(fds, url) ==
    values(fds)[Least({i \in DOMAIN values(fds) : fds[values(fds)[i]].url = url})]

\* FeedBot.remove_feed: by name, else by url (_url2name)
remove_feed(h, fds, st, arg) ==
    IF arg \in DOMAIN fds
    THEN saved(h, [n \in DOMAIN fds \ {arg} |-> fds[n]], st, "FEED_DELETED")
    ELSE IF arg \in get_feed_urls(fds)
    THEN saved(h, [n \in DOMAIN fds \ {url2name(fds, arg)} |-> fds[n]], st, "FEED_DELETED")
    ELSE refused(h, fds, st, "FEED_REMOVE_HELP")

ALLOWED_FILTER_TYPES == {"not", "age"}

\* FeedBot.add_filter with well-formed arguments: the feed is looked up first;
\* an allowed type always builds NotFilter(term), the term lower-cased
add_filter(h, fds, st, name, filter_type, term) ==
    IF name \notin DOMAIN fds THEN refused(h, fds, st, "FEED_NOT_FOUND_ERROR")
    ELSE IF filter_type \notin ALLOWED_FILTER_TYPES
    THEN refused(h, fds, st, "UNKNOWN_FILTER_ERROR")
    ELSE saved(Alloc(h, NotFilter(lower(term))),
               [fds EXCEPT ![name] = Feed_add_filter(@, NewRef(h))], st, "ADDED_FILTER")

\* remove_filter taking a negative index from the end of the chain
remove_filter_from_end(h, fds, st, name, index) ==
    IF index.kind = "bad" \/ name \notin DOMAIN fds
    THEN refused(h, fds, st, "REMOVE_FILTER_HELP")
    ELSE IF -Len(fds[name].filters) <= index.n /\ index.n < Len(fds[name].filters)
    THEN LET i == IF index.n < 0 THEN Len(fds[name].filters) + index.n ELSE index.n
             r == Feed_remove_filter(h, fds[name], fds[name].filters[i + 1])
         IN  saved(h, [fds EXCEPT ![name] = r.feed], st, "REMOVED_FILTER")
    ELSE refused(h, fds, st, "REMOVE_FILTER_HELP")

\* FeedBot.remove_filter with a feed name and an index: int, or bad
remove_filter(h, fds, st, name, index) ==
    IF index.kind = "bad" \/ name \notin DOMAIN fds
    THEN refused(h, fds, st, "REMOVE_FILTER_HELP")
    ELSE IF 0 <= index.n /\ index.n < Len(fds[name].filters)
    THEN LET r == Feed_remove_filter(h, fds[name], fds[name].filters[index.n + 1])
         IN  saved(h, [fds EXCEPT ![name] = r.feed], st, "REMOVED_FILTER")
    ELSE refused(h, fds, st, "REMOVE_FILTER_HELP")

\* FeedBot.set_age_filter with a feed name and the minutes: int, or bad
set_age_filter(h, fds, st, name, minutes) ==
    IF name \notin DOMAIN fds \/ minutes.kind = "bad"
    THEN refused(h, fds, st, "SET_AGE_FILTER_HELP")
    ELSE LET r == Feed_set_age_filter(h, fds[name], minutes.n)
         IN  saved(r.heap, [fds EXCEPT ![name] = r.feed], st, "OKAY")

(***************************************************************************)
(* SpecFeed: one Feed, built directly as the tests build it, driven through *)
(* its own methods.                                                        *)
(***************************************************************************)

\* Feed(name, url) and Feed(name, url, filters=[AgeFilter(25), NotFilter(term)])
InitFeed ==
    /\ \/ heap = <<>> /\ feeds = [n \in {"f1"} |-> Feed("f1", Url("f1"), <<>>)]
       \/ /\ heap = HeapOf(<<AgeFilter(25), NotFilter(<<"A">>)>>)
          /\ feeds = [n \in {"f1"} |-> Feed("f1", Url("f1"), <<1, 2>>)]
    /\ entry_history = <<>>
    /\ recorded = <<>>
    /\ shown = {}
    /\ dumped = NoDump
    /\ store = NoStore
    /\ last = NoLast

BotUnchanged == UNCHANGED <<entry_history, recorded, shown, dumped, store>>

\* new_filter = NotFilter(...) or AgeFilter(...); feed.add_filter(new_filter)
FeedAddFilter(n, f) ==
    /\ Len(feeds[n].filters) < MaxChain
    /\ heap' = Alloc(heap, f)
    /\ feeds' = [feeds EXCEPT ![n] = Feed_add_filter(@, NewRef(heap))]
    /\ last' = [NoLast EXCEPT !.op = "add_filter", !.feed = n, !.ref = NewRef(heap),
                              !.preFeeds = feeds, !.preHeap = heap]
    /\ BotUnchanged

\* feed.remove_filter(x) for a filter object x of the chain
FeedRemoveFilter(n, ref) ==
    LET r == Feed_remove_filter(heap, feeds[n], ref)
        fds == [feeds EXCEPT ![n] = r.feed]
    IN  /\ ref \in Range(feeds[n].filters)
        /\ feeds' = fds
        /\ heap' = Collect(heap, fds)
        /\ last' = [NoLast EXCEPT !.op = "remove_filter", !.feed = n, !.ref = ref,
                                  !.exc = r.exc, !.preFeeds = feeds, !.preHeap = heap]
        /\ BotUnchanged

\* g = a new filter of the kind and configuration of chain member i;
\* feed.remove_filter(g)
FeedRemoveEqualFilter(n, i) ==
    LET g == NewRef(heap)
        h1 == Alloc(heap, heap[feeds[n].filters[i]])
        r == Feed_remove_filter(h1, feeds[n], g)
        fds == [feeds EXCEPT ![n] = r.feed]
    IN  /\ i \in DOMAIN feeds[n].filters
        /\ feeds' = fds
        /\ heap' = Collect(h1, fds)
        /\ last' = [NoLast EXCEPT !.op = "remove_equal_filter", !.feed = n, !.ref = g,
                                  !.arg = i, !.exc = r.exc, !.preFeeds = feeds,
                                  !.preHeap = heap]
        /\ BotUnchanged

\* feed.set_age_filter(minutes)
FeedSetAgeFilter(n, m) ==
    LET r == Feed_set_age_filter(heap, feeds[n], m)
    IN  /\ Len(feeds[n].filters) < MaxChain
        /\ heap' = r.heap
        /\ feeds' = [feeds EXCEPT ![n] = r.feed]
        /\ last' = [NoLast EXCEPT !.op = "set_age_filter", !.feed = n, !.arg = m,
                                  !.preFeeds = feeds, !.preHeap = heap]
        /\ BotUnchanged

\* feed.get_filtered_feed() with feedparser returning doc
FeedGetFilteredFeed(n, doc) ==
    \E r \in {get_filtered_feed(heap, feeds[n], doc)} :
        /\ last' = [NoLast EXCEPT !.op = "get_filtered_feed", !.feed = n, !.exc = r.exc,
                                  !.doc = doc, !.out = r.entries,
                                  !.preFeeds = feeds, !.preHeap = heap]
        /\ UNCHANGED <<heap, feeds>>
        /\ BotUnchanged

NextFeed ==
    \/ \E f \in NewFilters : FeedAddFilter("f1", f)
    \/ \E ref \in DOMAIN heap : FeedRemoveFilter("f1", ref)
    \/ \E i \in 1..MaxChain : FeedRemoveEqualFilter("f1", i)
    \/ \E m \in Minutes : FeedSetAgeFilter("f1", m)
    \/ \E doc \in Documents(EntriesOf(1)) : FeedGetFilteredFeed("f1", doc)

SpecFeed == InitFeed /\ [][NextFeed]_vars

(***************************************************************************)
(* Properties of the Feed, under SpecFeed.                                 *)
(***************************************************************************)
Count(s, P(_)) == Cardinality({i \in DOMAIN s : P(s[i])})

\* C1: Feed._accept_entry(entry) is true iff no filter of the chain discards the
\* entry (an empty chain accepts every entry), and get_filtered_feed returns
\* exactly the accepted entries of the document, in the document's order.
C1_ChainAndSemantics ==
    \A n \in DOMAIN feeds :
        LET chain == feeds[n].filters
            Kept(e) == \A i \in DOMAIN chain : ~discard_entry(heap[chain[i]], e)
        IN  /\ \A e \in EntriesOf(1) : accept_entry(heap, feeds[n], e) <=> Kept(e)
            /\ (last.op = "get_filtered_feed" /\ last.feed = n /\ last.exc = "none")
                   => last.out = SelectSeq(last.doc.entries, Kept)

\* a chain of two filters, a document of two entries: the first entry is kept
\* by one filter and discarded by the other, the second is kept by both
C1_Witness ==
    /\ last.op = "get_filtered_feed"
    /\ Len(feeds[last.feed].filters) = 2
    /\ Len(last.doc.entries) = 2
    /\ \E i, j \in DOMAIN feeds[last.feed].filters :
           /\ discard_entry(heap[feeds[last.feed].filters[i]], last.doc.entries[1])
           /\ ~discard_entry(heap[feeds[last.feed].filters[j]], last.doc.entries[1])
    /\ last.out = <<last.doc.entries[2]>>

\* C6: set_age_filter(m) on a feed with an age filter attached sets that
\* filter's window to m and leaves the chain as it was; with none attached it
\* appends one new AgeFilter.
C6_SetAgeFilterInPlace ==
    last.op = "set_age_filter" =>
        LET pre == last.preFeeds[last.feed]
            cur == feeds[last.feed]
        IN  IF pre.age_filter # NoRef
            THEN /\ cur.filters = pre.filters
                 /\ heap[pre.age_filter].window = last.arg
            ELSE /\ Len(cur.filters) = Len(pre.filters) + 1
                 /\ SubSeq(cur.filters, 1, Len(pre.filters)) = pre.filters
                 /\ cur.filters[Len(cur.filters)] \notin DOMAIN last.preHeap
                 /\ heap[cur.filters[Len(cur.filters)]].cls = "AgeFilter"

\* C8: if the age-filter back-reference is set, the referenced filter is in the
\* chain; and right after remove_filter(f) with f the referenced age filter the
\* back-reference is cleared.
C8_BackReferenceInChain ==
    /\ \A n \in DOMAIN feeds :
           feeds[n].age_filter # NoRef => feeds[n].age_filter \in Range(feeds[n].filters)
    /\ (last.op = "remove_filter" /\ last.ref = last.preFeeds[last.feed].age_filter)
           => feeds[last.feed].age_filter = NoRef

\* the referenced age filter was removed from a chain that held another filter too
C8_Witness ==
    /\ last.op = "remove_filter"
    /\ last.preFeeds[last.feed].age_filter = last.ref
    /\ last.ref # NoRef
    /\ Len(last.preFeeds[last.feed].filters) >= 2
    /\ feeds[last.feed].age_filter = NoRef

\* C9: after remove_filter(f) for f in the chain, f is no longer in the chain,
\* the chain is one element shorter and every other filter is still in it.
C9_RemovedFilterGone ==
    (last.op = "remove_filter" /\ last.ref \in Range(last.preFeeds[last.feed].filters)) =>
        LET pre == last.preFeeds[last.feed]
            cur == feeds[last.feed]
        IN  /\ last.ref \notin Range(cur.filters)
            /\ Len(cur.filters) = Len(pre.filters) - 1
            /\ \A x \in Range(pre.filters) \ {last.ref} : x \in Range(cur.filters)

Recorded(rec, hist, link) ==
    IF link \in Range(hist) THEN rec
    ELSE Append(SelectSeq(rec, LAMBDA x : x # link), link)

LinksOf(entries) == [i \in DOMAIN entries |-> entries[i].link]

InitHist ==
    /\ heap = <<>>
    /\ feeds = <<>>
    /\ entry_history = <<>>
    /\ recorded = <<>>
    /\ shown = {}
    /\ dumped = NoDump
    /\ store = NoStore
    /\ last = NoLast

\* self._add_entry_to_history(entry)
AddEntryToHistory(l) ==
    /\ entry_history' = add_entry_to_history(entry_history, l)
    /\ recorded' = Recorded(recorded, entry_history, l)
    /\ last' = [NoLast EXCEPT !.op = "add_entry_to_history", !.link = l,
                              !.preHist = entry_history]
    /\ UNCHANGED <<heap, feeds, shown, dumped, store>>

\* self._seen_entry(entry)
SeenEntry(l) ==
    /\ last' = [NoLast EXCEPT !.op = "seen_entry", !.link = l,
                              !.res = seen_entry(entry_history, l),
                              !.preHist = entry_history]
    /\ UNCHANGED <<heap, feeds, entry_history, recorded, shown, dumped, store>>

\* two links more than the history holds
HistLinks == 1..(HistoryCapacity + 2)

NextHist ==
    \/ \E l \in HistLinks : AddEntryToHistory(l)
    \/ \E l \in HistLinks : SeenEntry(l)

SpecHist == InitHist /\ [][NextHist]_vars

(***************************************************************************)
(* Properties of the seen-history, under SpecHist.  A link counts as       *)
(* recorded when _add_entry_to_history appends it, that is when the        *)
(* history does not hold it at that moment; `recorded` lists the links     *)
(* recorded so far, ordered by their latest recording.                     *)
(***************************************************************************)
NoDuplicates(s) == \A i, j \in DOMAIN s : s[i] = s[j] => i = j

MaxEntriesAll == 1      \* entries in one fetched document during dump_all

\* the entry of link l: the one of link 1 holds the term of the NotFilter
DumpEntry(l) ==
    IF l = 1 THEN Entry(l, <<"a">>, <<"b">>, TRUE, 10)
    ELSE Entry(l, <<"B", "<i>", "c">>, <<"b">>, TRUE, 10)

DumpEntries == {DumpEntry(l) : l \in Links}

BadDocs == {[kind |-> "bozo", entries |-> <<>>], [kind |-> "no_entries", entries |-> <<>>]}

DumpDocs == {[kind |-> "ok", entries |-> es] : es \in SeqsUpTo(DumpEntries, MaxEntries)} \cup BadDocs

DumpAllDocs ==
    {[kind |-> "ok", entries |-> es] : es \in SeqsUpTo(DumpEntries, MaxEntriesAll)} \cup BadDocs

\* the limit as typed: none, not a number, or a number
Limits == {NoLimit} \cup {[kind |-> "int", n |-> k] : k \in -1..1}

BadLimit == [kind |-> "bad", n |-> 0]

InitDump ==
    /\ heap = HeapOf(<<NotFilter(<<"A">>)>>)
    /\ feeds = [n \in Names |-> Feed(n, Url(n), IF n = "f1" THEN <<1>> ELSE <<>>)]
    /\ entry_history = <<>>
    /\ recorded = <<>>
    /\ shown = {}
    /\ dumped = NoDump
    /\ store = NoStore
    /\ last = NoLast

\* the command returned; the bot waits for the next one
Serve ==
    /\ last.op # "init"
    /\ last' = NoLast
    /\ UNCHANGED <<heap, feeds, entry_history, recorded, shown, dumped, store>>

\* the command dump_feed <name> [limit], the fetch returning doc
DumpFeed(n, limit, doc) ==
    /\ last.op = "init"
    /\ \E r \in {dump_feed(heap, feeds, entry_history, n, limit, doc)} :
        /\ entry_history' = r.hist
        /\ shown' = shown \cup Range(LinksOf(r.displayed))
        /\ dumped' = IF r.displayed # <<>> /\ r.displayed = r.filtered
                      THEN [feed |-> n, links |-> Range(LinksOf(r.filtered))]
                      ELSE dumped
        /\ last' = [NoLast EXCEPT !.op = "dump_feed", !.feed = n, !.limit = limit,
                                  !.doc = doc, !.exc = r.exc, !.filtered = r.filtered,
                                  !.displayed = r.displayed, !.msgs = r.msgs,
                                  !.preHist = entry_history, !.preShown = shown,
                                  !.preDumped = dumped]
        /\ UNCHANGED <<heap, feeds, recorded, store>>

\* the command dump_all, the fetch of feed n returning docs[n]
DumpAll(docs) ==
    /\ last.op = "init"
    /\ \E r \in {dump_all(heap, feeds, entry_history, FeedOrder, docs)} :
        /\ entry_history' = r.hist
        /\ shown' = shown \cup Range(LinksOf(r.displayed))
        /\ last' = [NoLast EXCEPT !.op = "dump_all", !.exc = r.exc,
                                  !.filtered = r.filtered,
                                  !.displayed = r.displayed, !.msgs = r.msgs,
                                  !.preHist = entry_history, !.preShown = shown,
                                  !.preDumped = dumped]
        /\ UNCHANGED <<heap, feeds, recorded, dumped, store>>

NextDump ==
    \/ Serve
    \/ \E n \in Names, limit \in Limits, doc \in DumpDocs : DumpFeed(n, limit, doc)
    \/ \E n \in Names \cup {"f3"} : DumpFeed(n, BadLimit, NoDoc)
    \/ \E limit \in Limits : DumpFeed("f3", limit, NoDoc)
    \/ \E docs \in [Names -> DumpAllDocs] : DumpAll(docs)

SpecDump == InitDump /\ [][NextDump]_vars

(***************************************************************************)
(* Properties of the dump commands, under SpecDump.                        *)
(***************************************************************************)
\* the entries of s whose link is none of S and occurs in s for the first time
FirstUnseen(s, S) ==
    LET keep == {i \in DOMAIN s : s[i].link \notin S /\ \A j \in 1..(i - 1) : s[j].link # s[i].link}
        F[i \in 0..Len(s)] ==
            IF i = 0 THEN <<>> ELSE IF i \in keep THEN Append(F[i - 1], s[i]) ELSE F[i - 1]
    IN  F[Len(s)]

\* the limit of the last dump_feed covers its whole filtered list
LimitCovers ==
    \/ last.limit.kind = "absent" /\ DEFAULT_STORY_LIMIT >= Len(last.filtered)
    \/ last.limit.kind = "int" /\ last.limit.n >= Len(last.filtered)

\* C4 as stated: a dump_feed displayed the filtered entries L1 of a feed; a
\* later dump_feed of that feed with filtered entries L2, the limit covering
\* them and no more than capacity links recorded, displays exactly the entries
\* of L2 whose link does not occur in L1, in L2's order.  (Stated here for the
\* lists L2 whose links are pairwise distinct.)
C4_SecondDumpMinusFirst ==
    (/\ last.op = "dump_feed" /\ last.exc = "none"
     /\ last.feed \in DOMAIN feeds
     /\ last.preDumped.feed = last.feed
     /\ LimitCovers
     /\ NoDuplicates(LinksOf(last.filtered))
     /\ Cardinality(shown) <= HistoryCapacity)
    => last.displayed = SelectSeq(last.filtered, LAMBDA e : e.link \notin last.preDumped.links)

\* C4 amended: under the same conditions the second dump displays, in L2's
\* order, the first entry of each link of L2 that was not displayed before,
\* neither in L1 nor by any other earlier dump of any feed.
C4_SecondDumpMinusShown ==
    (/\ last.op = "dump_feed" /\ last.exc = "none"
     /\ last.feed \in DOMAIN feeds
     /\ LimitCovers
     /\ Cardinality(shown) <= HistoryCapacity)
    => /\ last.preDumped.links \subseteq last.preShown
       /\ last.displayed = FirstUnseen(last.filtered, last.preShown)

\* the second dump of a feed: L2 holds a link of L1 and a link never displayed
C4_Witness ==
    /\ last.op = "dump_feed" /\ last.exc = "none"
    /\ last.preDumped.feed = last.feed
    /\ LimitCovers
    /\ Cardinality(shown) <= HistoryCapacity
    /\ Len(last.filtered) = 2
    /\ last.filtered[1].link \in last.preDumped.links
    /\ last.displayed = <<last.filtered[2]>>

Urls == {"u1", "u2"}

\* the fetch of add_feed: a well-formed or a malformed document
FetchDocs ==
    {[kind |-> "ok", entries |-> <<>>, error |-> ""]}
    \cup {[kind |-> "bozo", entries |-> <<>>, error |-> t] : t \in {"not well-formed", "timed out"}}

\* a number as typed: an integer, or not one
IntArg(k) == [kind |-> "int", n |-> k]

NotInt == [kind |-> "bad", n |-> 0]

\* filters in all the chains
TotalFilters(fds) ==
    LET S[i \in 0..Len(values(fds))] ==
            IF i = 0 THEN 0 ELSE S[i - 1] + Len(fds[values(fds)[i]].filters)
    IN  S[Len(values(fds))]

\* FeedBot.__init__ with no data file, an empty one, or one holding "[]"
InitBot ==
    /\ store \in {NoStore, [exists |-> TRUE, data |-> <<>>, length |-> 0],
                  [exists |-> TRUE, data |-> <<>>, length |-> Len(dumps(<<>>))]}
    /\ heap = load_feed_data(store).heap
    /\ feeds = load_feed_data(store).feeds
    /\ entry_history = <<>>
    /\ recorded = <<>>
    /\ shown = {}
    /\ dumped = NoDump
    /\ last = NoLast

\* the words typed after the feed name: a number (or what should be one) and
\* a filter type
Typed(number, kind) == [number |-> number, kind |-> kind]

NoTyped == Typed(NoLimit, "")

\* a command whose failed save takes the change of the feeds back
Ran_rolling_back(op, name, arg, r) ==
    /\ heap' = IF r.save = "failed" THEN heap ELSE r.heap
    /\ feeds' = IF r.save = "failed" THEN feeds ELSE r.feeds
    /\ store' = r.store
    /\ last' = [NoLast EXCEPT !.op = op, !.feed = name, !.arg = arg.number.n,
                              !.typed = arg.number, !.kind = arg.kind, !.msgs = r.msgs,
                              !.exc = r.exc, !.save = r.save, !.preFeeds = feeds,
                              !.preHeap = heap, !.preStore = store, !.doc = r.doc,
                              !.url = r.url]
    /\ UNCHANGED <<entry_history, recorded, shown, dumped>>

\* a command has run: its effect and the record of it
Ran(op, name, arg, r) ==
    /\ heap' = r.heap
    /\ feeds' = r.feeds
    /\ store' = r.store
    /\ last' = [NoLast EXCEPT !.op = op, !.feed = name, !.arg = arg.number.n,
                              !.typed = arg.number, !.kind = arg.kind, !.msgs = r.msgs,
                              !.exc = r.exc, !.save = r.save, !.preFeeds = feeds,
                              !.preHeap = heap, !.preStore = store, !.doc = r.doc,
                              !.url = r.url]
    /\ UNCHANGED <<entry_history, recorded, shown, dumped>>

\* the command add_feed <name> <url>
AddFeed(name, url, doc) ==
    /\ last.op = "init"
    /\ TotalFilters(feeds) < MaxChain
    /\ \E r \in {add_feed(heap, feeds, store, name, url, doc)} :
           Ran("add_feed", name, NoTyped, r)

\* add_feed with one word or more than three: ValueError, the help message
AddFeedHelp ==
    /\ last.op = "init"
    /\ Ran("add_feed", "", NoTyped, refused(heap, feeds, store, "FEED_ADD_HELP"))

\* the command remove_feed <name or url>
RemoveFeed(arg) ==
    /\ last.op = "init"
    /\ \E r \in {remove_feed(heap, feeds, store, arg)} : Ran("remove_feed", arg, NoTyped, r)

\* the command add_filter <name> <type>: <term>
AddFilter(name, filter_type, term) ==
    /\ last.op = "init"
    /\ TotalFilters(feeds) < MaxChain
    /\ \E r \in {add_filter(heap, feeds, store, name, filter_type, term)} :
           Ran("add_filter", name, Typed(NoLimit, filter_type), r)

\* add_filter without the colon or with a wrong number of words: ValueError
AddFilterHelp ==
    /\ last.op = "init"
    /\ Ran("add_filter", "", NoTyped, refused(heap, feeds, store, "ADD_FILTER_HELP"))

\* the command remove_filter <name> <index>
RemoveFilter(name, index) ==
    /\ last.op = "init"
    /\ \E r \in {remove_filter(heap, feeds, store, name, index)} :
           Ran("remove_filter", name, Typed(index, ""), r)

\* the command set_age_filter <name> <minutes>
SetAgeFilter(name, minutes) ==
    /\ last.op = "init"
    /\ TotalFilters(feeds) < MaxChain
    /\ \E r \in {set_age_filter(heap, feeds, store, name, minutes)} :
           Ran("set_age_filter", name, Typed(minutes, ""), r)

\* the bot is started again: FeedBot.__init__
Restart ==
    /\ last.op = "init"
    /\ \E r \in {load_feed_data(store)} :
        /\ heap' = r.heap
        /\ feeds' = r.feeds
        /\ entry_history' = <<>>
        /\ last' = [NoLast EXCEPT !.op = "restart", !.msgs = r.msgs, !.preFeeds = feeds,
                                  !.preHeap = heap, !.preStore = store]
        /\ UNCHANGED <<recorded, shown, dumped, store>>

NextBot ==
    \/ Serve
    \/ \E name \in Names : \E url \in {Url(name), "u1"}, doc \in FetchDocs :
           AddFeed(name, url, doc)
    \/ AddFeedHelp
    \/ \E arg \in Names \cup Urls \cup {"f3"} : RemoveFeed(arg)
    \/ \E name \in Names \cup {"f3"}, t \in {"not", "age", "xor"} : AddFilter(name, t, <<"A">>)
    \/ AddFilterHelp
    \/ \E name \in Names \cup {"f3"}, k \in -1..MaxChain : RemoveFilter(name, IntArg(k))
    \/ \E name \in Names \cup {"f3"} : RemoveFilter(name, NotInt)
    \/ \E name \in Names \cup {"f3"}, m \in Minutes : SetAgeFilter(name, IntArg(m))
    \/ \E name \in Names \cup {"f3"} : SetAgeFilter(name, NotInt)
    \/ Restart

SpecBot == InitBot /\ [][NextBot]_vars

(***************************************************************************)
(* Properties of the set_age_filter command, under SpecBot.                *)
(***************************************************************************)
\* the age-cutoff filters in the chain of feed fd
AgeFiltersOf(h, fd) == {i \in DOMAIN fd.filters : h[fd.filters[i]].cls = "AgeFilter"}

\* C7 as stated: after a successful set_age_filter command with m minutes the
\* chain of the feed holds exactly one AgeFilter, and its get_window() is m.
C7_OneAgeFilterAfterSet ==
    (last.op = "set_age_filter" /\ last.msgs = <<"OKAY">>) =>
        /\ Cardinality(AgeFiltersOf(heap, feeds[last.feed])) = 1
        /\ \A i \in AgeFiltersOf(heap, feeds[last.feed]) :
               get_window(heap[feeds[last.feed].filters[i]]) = last.arg

(***************************************************************************)
(* SpecSerial: the filters and the dictionaries they are written to and    *)
(* read from (to_dict, from_dict, set_window, get_window), applied to      *)
(* filters and to dictionaries drawn from bounded sets.                    *)
(***************************************************************************)
MaxArgs == 2            \* positional arguments in a filter dictionary

\* windows in minutes: none, a short one, a day, more than a day
Windows == {0, 20, MINUTES_PER_DAY, MINUTES_PER_DAY + 20}

\* the filters: built by the constructors, or an AgeFilter after set_window
SerialFilters ==
    {NotFilter(t) : t \in Terms} \cup {AgeFilter(m) : m \in Windows}
    \cup {set_window(AgeFilter(0), m) : m \in Windows}

\* entries published 1, 10, 100 and 2000 minutes ago, and one without a date
AgedEntries ==
    {Entry(1, <<"a">>, <<"b">>, TRUE, age) : age \in {1, 10, 100, 2000}}
    \cup {Entry(1, <<"B", "<i>", "c">>, <<"b">>, FALSE, 0)}

\* a filter dictionary
FilterRecord(class, args, kwargs) == [class |-> class, args |-> args, kwargs |-> kwargs]

\* filter dictionaries: a class name of the module, another name or none;
\* positional arguments; no keyword, minutes or hours
FilterRecords ==
    {FilterRecord(c, a, k) :
        c \in ModuleNames \cup {"XorFilter", NoClass},
        a \in SeqsUpTo({<<"A">>}, MaxArgs),
        k \in {<<>>} \cup {<<<<key, m>>>> : key \in {"minutes", "hours"}, m \in Minutes}}

\* the filter dictionaries nested in the feed dictionaries
NestedRecords ==
    {FilterRecord("NotFilter", <<<<"a">>>>, <<>>),
     FilterRecord("AgeFilter", <<>>, <<<<"minutes", 20>>>>),
     FilterRecord("NotFilter", <<>>, <<>>),
     FilterRecord("XorFilter", <<<<"a">>>>, <<>>),
     FilterRecord("timedelta", <<>>, <<<<"minutes", 20>>>>),
     FilterRecord(NoClass, <<<<"a">>>>, <<>>)}

\* a feed dictionary with the keys of the set keys
FeedRecord(class, name, filters, keys) ==
    [class |-> class, name |-> name, url |-> Url(name), filters |-> filters, keys |-> keys]

\* feed dictionaries: the class tag right or wrong, all keys or one missing
FeedRecords ==
    {FeedRecord(c, "f1", fs, ks) :
        c \in {"Feed", "Fed"},
        fs \in SeqsUpTo(NestedRecords, MaxChain),
        ks \in {FeedKeys} \cup {FeedKeys \ {k} : k \in FeedKeys}}

InitSerial ==
    /\ heap = <<>>
    /\ feeds = <<>>
    /\ entry_history = <<>>
    /\ recorded = <<>>
    /\ shown = {}
    /\ dumped = NoDump
    /\ store = NoStore
    /\ last = NoLast

\* FilterBase.from_dict(f.to_dict())
ToDictFromDict(f) ==
    /\ last' = [NoLast EXCEPT !.op = "round_trip", !.obj = f, !.rec = Filter_to_dict(f),
                              !.made = Filter_from_dict(Filter_to_dict(f))]
    /\ UNCHANGED <<heap, feeds, entry_history, recorded, shown, dumped, store>>

\* f = AgeFilter(); f.set_window(m); f.get_window()
SetWindowGetWindow(m) ==
    /\ last' = [NoLast EXCEPT !.op = "set_window", !.arg = m, !.res = TRUE,
                              !.obj = set_window(AgeFilter(0), m),
                              !.num = get_window(set_window(AgeFilter(0), m))]
    /\ UNCHANGED <<heap, feeds, entry_history, recorded, shown, dumped, store>>

\* FilterBase.from_dict(d)
FilterFromDict(d) ==
    /\ last' = [NoLast EXCEPT !.op = "from_dict", !.rec = d, !.made = Filter_from_dict(d)]
    /\ UNCHANGED <<heap, feeds, entry_history, recorded, shown, dumped, store>>

\* Feed.from_dict(d)
FeedFromDict(d) ==
    /\ last' = [NoLast EXCEPT !.op = "feed_from_dict", !.rec = d, !.made = Feed_from_dict(d)]
    /\ UNCHANGED <<heap, feeds, entry_history, recorded, shown, dumped, store>>

\* entries published exactly the window of f ago, one second earlier and one
\* second later, and one that carries no publication time
BoundaryEntries(f) ==
    {[Entry(1, <<"a">>, <<"b">>, TRUE, f.window) EXCEPT
          !.age = f.window * SECONDS_PER_MINUTE + d] : d \in {-1, 0, 1}}
    \cup {Entry(1, <<"a">>, <<"b">>, FALSE, 0)}

\* f.discard_entry(entry) for an AgeFilter f
DiscardEntry(f, entry) ==
    /\ f.cls = "AgeFilter"
    /\ last' = [NoLast EXCEPT !.op = "discard_entry", !.obj = f, !.out = <<entry>>,
                              !.res = discard_entry(f, entry)]
    /\ UNCHANGED <<heap, feeds, entry_history, recorded, shown, dumped, store>>

NextSerial ==
    \/ \E f \in SerialFilters : \E entry \in BoundaryEntries(f) : DiscardEntry(f, entry)
    \/ \E f \in SerialFilters : ToDictFromDict(f)
    \/ \E m \in Windows : SetWindowGetWindow(m)
    \/ \E d \in FilterRecords : FilterFromDict(d)
    \/ \E d \in FeedRecords : FeedFromDict(d)

SpecSerial == InitSerial /\ [][NextSerial]_vars

(***************************************************************************)
(* Properties of the serialization, under SpecSerial.                      *)
(***************************************************************************)
\* C11: FilterBase.from_dict(f.to_dict()) is a filter of the kind of f with the
\* term or window of f, and discards the entries f discards.
C11_FilterRoundTrip ==
    last.op = "round_trip" =>
        /\ last.made.exc = "none"
        /\ last.made.filter.cls = last.obj.cls
        /\ last.made.filter.terms = last.obj.terms
        /\ last.made.filter.window = last.obj.window
        /\ \A e \in AgedEntries :
               discard_entry(last.made.filter, e) = discard_entry(last.obj, e)

\* C12: set_window(m) succeeds and the get_window() that follows returns m.
C12_GetWindowReturnsMinutes ==
    last.op = "set_window" => (last.res /\ last.num = last.arg)

Mismatch(d) ==
    \/ d.class = "NotFilter" /\ ~(Len(d.args) = 1 /\ d.kwargs = <<>>)
    \/ /\ d.class = "AgeFilter"
       /\ ~(d.args = <<>> /\ (d.kwargs = <<>> \/ (Len(d.kwargs) = 1 /\ d.kwargs[1][1] = "minutes")))

\* C13: a filter dictionary whose class name is no filter kind, or has none,
\* is rejected: FilterBase.from_dict raises ValueError, and Feed.from_dict of
\* a feed dictionary holding such a filter raises DeserializationError.
C13_UnknownKindRejected ==
    /\ (last.op = "from_dict" /\ last.rec.class \notin FilterClasses)
           => last.made.exc = "ValueError"
    /\ (/\ last.op = "feed_from_dict"
        /\ last.rec.keys = FeedKeys /\ last.rec.class = "Feed"
        /\ \E i \in DOMAIN last.rec.filters : last.rec.filters[i].class \notin FilterClasses)
           => last.made.exc = "DeserializationError"

\* C14: a dictionary of a filter kind whose arguments do not fit the
\* constructor is rejected with the error of the same dictionary under a
\* class name that is unknown, by FilterBase.from_dict and, nested in a feed
\* dictionary, by Feed.from_dict.
C14_MismatchRejectedAsUnknownKind ==
    /\ (last.op = "from_dict" /\ Mismatch(last.rec))
           => /\ last.made.exc # "none"
              /\ last.made.exc = Filter_from_dict([last.rec EXCEPT !.class = "XorFilter"]).exc
    /\ (/\ last.op = "feed_from_dict"
        /\ last.rec.keys = FeedKeys /\ last.rec.class = "Feed"
        /\ Len(last.rec.filters) = 1 /\ Mismatch(last.rec.filters[1]))
           => /\ last.made.exc # "none"
              /\ last.made.exc =
                     Feed_from_dict([last.rec EXCEPT !.filters[1].class = "XorFilter"]).exc

\* C15: FilterBase.from_dict fails or returns a NotFilter or an AgeFilter.
C15_ClosedMapping ==
    last.op = "from_dict" =>
        (last.made.exc # "none" \/ last.made.filter.cls \in FilterClasses)

\* the feed dictionary d is invalid: wrong class tag, a key missing, or a
\* nested filter dictionary that is invalid
InvalidFeedRecord(d) ==
    \/ d.class # "Feed"
    \/ d.keys # FeedKeys
    \/ \E i \in DOMAIN d.filters :
           d.filters[i].class \notin FilterClasses \/ Mismatch(d.filters[i])

\* C16: Feed.from_dict raises DeserializationError for an invalid feed
\* dictionary, and a Feed it returns holds a filter for every filter
\* dictionary.
C16_FeedFromDictRejects ==
    last.op = "feed_from_dict" =>
        /\ InvalidFeedRecord(last.rec) => last.made.exc = "DeserializationError"
        /\ last.made.exc = "none" => Len(last.made.filters) = Len(last.rec.filters)

(***************************************************************************)
(* The round trip of a Feed, under SpecFeed.                               *)
(***************************************************************************)
\* the filters of s, as a multiset
BagOf(s) == [x \in Range(s) |-> Cardinality({i \in DOMAIN s : s[i] = x})]

\* C17: Feed.from_dict(feed.to_dict()) has the name and the url of the feed
\* and a chain of the same length with filters of the same kinds and
\* configurations.
C17_FeedRoundTrip ==
    \A n \in DOMAIN feeds :
        LET made == Feed_from_dict(Feed_to_dict(heap, feeds[n]))
            chain == [i \in DOMAIN feeds[n].filters |-> heap[feeds[n].filters[i]]]
        IN  /\ made.exc = "none"
            /\ made.name = feeds[n].name
            /\ made.url = feeds[n].url
            /\ Len(made.filters) = Len(chain)
            /\ BagOf(made.filters) = BagOf(chain)

(***************************************************************************)
(* SpecLoad: the bot is started on a data file left in any condition.      *)
(***************************************************************************)
MaxRecords == 2         \* feed dictionaries in the data file

\* the feed dictionaries a file may hold: two that are valid, one with a wrong
\* class tag, one with a filter of an unknown class, one with a filter whose
\* arguments do not fit
LoadRecords ==
    {FeedRecord("Feed", "f1", <<FilterRecord("AgeFilter", <<>>, <<<<"minutes", 90>>>>)>>, FeedKeys),
     FeedRecord("Feed", "f2", <<FilterRecord("NotFilter", <<<<"a">>>>, <<>>)>>, FeedKeys),
     FeedRecord("Fed", "f2", <<>>, FeedKeys),
     FeedRecord("Feed", "f2", <<FilterRecord("XorFilter", <<<<"a">>>>, <<>>)>>, FeedKeys),
     FeedRecord("Feed", "f2", <<FilterRecord("NotFilter", <<>>, <<>>)>>, FeedKeys)}

\* the file: missing, or a JSON list of feed dictionaries, whole or followed
\* by the rest of a longer text written before
Files ==
    {NoStore}
    \cup {[exists |-> TRUE, data |-> data, length |-> Len(dumps(data)) + extra] :
             data \in SeqsUpTo(LoadRecords, MaxRecords), extra \in {0, 1}}

InitLoad ==
    /\ store \in Files
    /\ heap = <<>>
    /\ feeds = <<>>
    /\ entry_history = <<>>
    /\ recorded = <<>>
    /\ shown = {}
    /\ dumped = NoDump
    /\ last = NoLast

NextLoad == Restart \/ Serve

SpecLoad == InitLoad /\ [][NextLoad]_vars

\* the start on the file st fails: no file, no JSON, or an invalid dictionary
LoadFails(st) ==
    \/ ~st.exists
    \/ st.length # Len(dumps(st.data))
    \/ \E i \in DOMAIN st.data : InvalidFeedRecord(st.data[i])

\* C18: when the start fails, _load_feed_data returns no feeds, raises
\* nothing and sends the load-error message.
C18_LoadFailureGivesNoFeeds ==
    (last.op = "restart" /\ LoadFails(store)) =>
        /\ feeds = <<>>
        /\ last.exc = "none"
        /\ last.msgs = <<"FEED_DATA_LOAD_ERROR">>

(***************************************************************************)
(* Properties of the data file, under SpecBot.                             *)
(***************************************************************************)
\* the feeds without the identities of their filter objects
Plain(h, fds) ==
    [n \in DOMAIN fds |->
        [name |-> fds[n].name, url |-> fds[n].url,
         filters |-> [i \in DOMAIN fds[n].filters |-> h[fds[n].filters[i]]]]]

\* C19: after a command that changes the feeds and whose save succeeds, the
\* file holds the serialization of the feeds and nothing else, and loading it
\* gives these feeds.
C19_StoreIsSerialization ==
    last.save = "ok" =>
        /\ store.data = feed_data(heap, feeds)
        /\ store.length = Len(dumps(feed_data(heap, feeds)))
        /\ load_feed_data(store).msgs = <<>>
        /\ Plain(load_feed_data(store).heap, load_feed_data(store).feeds) = Plain(heap, feeds)

\* the feed that remove_feed was asked to remove, by name or by url, is gone
FeedGone(fds, arg) == arg \notin DOMAIN fds /\ arg \notin get_feed_urls(fds)

\* C20: when the save of a command that changes the feeds fails, the change
\* stays in memory, the save-error message is sent and nothing is raised.
C20_FailedSaveKeepsMutation ==
    last.save = "failed" =>
        /\ last.msgs = <<"FEED_SAVE_DATA_ERROR">>
        /\ last.exc = "none"
        /\ store = last.preStore
        /\ last.op \in {"add_feed", "remove_feed", "add_filter", "remove_filter",
                        "set_age_filter"}
        /\ last.op = "add_feed" =>
               /\ last.feed \in DOMAIN feeds \ DOMAIN last.preFeeds
               /\ \A n \in DOMAIN last.preFeeds : n \in DOMAIN feeds
        /\ last.op = "remove_feed" =>
               /\ FeedGone(feeds, last.feed)
               /\ ~FeedGone(last.preFeeds, last.feed)
               /\ Cardinality(DOMAIN feeds) = Cardinality(DOMAIN last.preFeeds) - 1
        /\ last.op = "add_filter" =>
               /\ Len(feeds[last.feed].filters) = Len(last.preFeeds[last.feed].filters) + 1
               /\ heap[feeds[last.feed].filters[Len(feeds[last.feed].filters)]].cls = "NotFilter"
        /\ last.op = "remove_filter" =>
               Len(feeds[last.feed].filters) = Len(last.preFeeds[last.feed].filters) - 1
        /\ last.op = "set_age_filter" =>
               /\ feeds[last.feed].age_filter \in Range(feeds[last.feed].filters)
               /\ last.arg # 0 => heap[feeds[last.feed].age_filter].window = last.arg

\* C20 happens: a save has failed after a command changed the feeds
C20_Witness ==
    /\ last.save = "failed"
    /\ last.op = "remove_filter"
    /\ last.preFeeds # feeds
    /\ last.preFeeds # <<>>

\* C21: no two feeds of the collection have the same name or the same url, and
\* an add_feed whose name or url is there already sends the feed-exists
\* message and changes nothing.
C21_UniqueNamesAndUrls ==
    /\ \A n \in DOMAIN feeds : feeds[n].name = n
    /\ \A n, m \in DOMAIN feeds : n # m => feeds[n].url # feeds[m].url
    /\ (/\ last.op = "add_feed"
        /\ last.url # ""
        /\ \/ last.feed \in DOMAIN last.preFeeds
           \/ \E n \in DOMAIN last.preFeeds : last.preFeeds[n].url = last.url)
           => /\ last.msgs = <<"FEED_EXISTS_ERROR">>
              /\ feeds = last.preFeeds
              /\ heap = last.preHeap
              /\ store = last.preStore

\* C21 happens: add_feed was given a new name with the url of another feed
C21_Witness ==
    /\ last.op = "add_feed"
    /\ last.feed \notin DOMAIN last.preFeeds
    /\ \E n \in DOMAIN last.preFeeds : last.preFeeds[n].url = last.url
    /\ last.msgs = <<"FEED_EXISTS_ERROR">>
    /\ Cardinality(DOMAIN feeds) = 1

\* C22: when the fetch of add_feed raises FeedDataError, the feed is not
\* added, the file is not written and the parse-error message with the text
\* of the error is sent.
C22_BadFeedNotAdded ==
    (last.op = "add_feed" /\ last.doc.kind = "bozo") =>
        /\ feeds = last.preFeeds
        /\ heap = last.preHeap
        /\ store = last.preStore
        /\ last.save = "none"
        /\ last.exc = "none"
        /\ last.msgs = <<FEED_PARSE_ERROR(last.doc.error)>>

\* C22 happens: the fetch of an add_feed with a new name and url has failed,
\* the bot holding a feed and a written file
C22_Witness ==
    /\ last.op = "add_feed"
    /\ last.doc.kind = "bozo"
    /\ last.doc.error = "timed out"
    /\ last.feed \notin DOMAIN last.preFeeds
    /\ last.preFeeds # <<>>
    /\ store.exists /\ store.data # <<>>

\* the command of the record l is one that validation rejects
Rejected(l) ==
    \/ /\ l.op = "add_filter"
       /\ l.feed \notin DOMAIN l.preFeeds \/ l.kind \notin {"not", "age"}
    \/ /\ l.op = "remove_filter"
       /\ \/ l.feed \notin DOMAIN l.preFeeds
          \/ l.typed.kind # "int"
          \/ l.typed.n < 0
          \/ l.typed.n >= Len(l.preFeeds[l.feed].filters)
    \/ /\ l.op = "set_age_filter"
       /\ l.feed \notin DOMAIN l.preFeeds \/ l.typed.kind # "int"
    \/ /\ l.op = "remove_feed"
       /\ l.feed \notin DOMAIN l.preFeeds
       /\ \A n \in DOMAIN l.preFeeds : l.preFeeds[n].url # l.feed

\* C24: a command that validation rejects leaves the feeds and every filter
\* chain as they were and does not write the file.
C24_RejectedHasNoEffect ==
    Rejected(last) =>
        /\ feeds = last.preFeeds
        /\ heap = last.preHeap
        /\ store = last.preStore
        /\ last.save = "none"

\* C24 happens: remove_filter was given the index -1 for a feed with a filter
C24_Witness ==
    /\ last.op = "remove_filter"
    /\ last.typed = IntArg(-1)
    /\ last.feed \in DOMAIN last.preFeeds
    /\ last.preFeeds[last.feed].filters # <<>>
    /\ last.preStore.exists
    /\ last.msgs = <<"REMOVE_FILTER_HELP">>

\* C26: add_filter for an existing feed and an allowed type appends exactly
\* one filter to the chain of the feed, a NotFilter for the type not and an
\* AgeFilter for the type age.
C26_AddedFilterOfNamedKind ==
    (/\ last.op = "add_filter"
     /\ last.feed \in DOMAIN last.preFeeds
     /\ last.kind \in ALLOWED_FILTER_TYPES) =>
        LET chain == feeds[last.feed].filters
            before == last.preFeeds[last.feed].filters
        IN  /\ Len(chain) = Len(before) + 1
            /\ \A i \in DOMAIN before : heap[chain[i]] = last.preHeap[before[i]]
            /\ heap[chain[Len(chain)]].cls =
                   (IF last.kind = "not" THEN "NotFilter" ELSE "AgeFilter")

\* the message that acknowledges each command that changes the feeds
SuccessMessage(op) ==
    IF op = "remove_feed" THEN "FEED_DELETED"
    ELSE IF op = "add_filter" THEN "ADDED_FILTER"
    ELSE IF op = "remove_filter" THEN "REMOVED_FILTER"
    ELSE "OKAY"

\* C28: in a command that changes the feeds the change comes before the write
\* of the file, which holds the changed feeds, and the success message is sent
\* only after the write has succeeded: a failed write is never followed by it.
C28_ChangeSaveAcknowledge ==
    last.op \in {"add_feed", "remove_feed", "add_filter", "remove_filter", "set_age_filter"} =>
        /\ SuccessMessage(last.op) \in Range(last.msgs) =>
               /\ last.save = "ok"
               /\ store.data = feed_data(heap, feeds)
               /\ last.msgs = <<SuccessMessage(last.op)>>
        /\ last.save = "failed" =>
               /\ SuccessMessage(last.op) \notin Range(last.msgs)
               /\ store = last.preStore
        /\ last.save = "ok" => last.msgs = <<SuccessMessage(last.op)>>
        /\ last.save = "none" => feeds = last.preFeeds /\ store = last.preStore

\* C28 happens: remove_filter changed a chain, wrote the file and acknowledged
C28_Witness ==
    /\ last.op = "remove_filter"
    /\ last.save = "ok"
    /\ last.msgs = <<"REMOVED_FILTER">>
    /\ store.data # last.preStore.data
    /\ store.data = feed_data(heap, feeds)

(***************************************************************************)
(* SpecChain: the bot started on a file that holds one feed, driven by the *)
(* commands that change the filter chain of that feed.                     *)
(***************************************************************************)
MaxFilters == 3         \* filters in the chain of the feed

\* the data file: the feed f1 without a filter, or as add_feed leaves it
ChainFiles ==
    {[exists |-> TRUE, data |-> <<FeedRecord("Feed", "f1", fs, FeedKeys)>>,
      length |-> Len(dumps(<<FeedRecord("Feed", "f1", fs, FeedKeys)>>))] :
         fs \in {<<>>, <<FilterRecord("AgeFilter", <<>>, <<<<"minutes", 90>>>>)>>}}

InitChain ==
    /\ store \in ChainFiles
    /\ heap = load_feed_data(store).heap
    /\ feeds = load_feed_data(store).feeds
    /\ entry_history = <<>>
    /\ recorded = <<>>
    /\ shown = {}
    /\ dumped = NoDump
    /\ last = NoLast

\* the command add_filter f1 <type>: <term>
ChainAddFilter(filter_type, term) ==
    /\ last.op = "init"
    /\ Len(feeds["f1"].filters) < MaxFilters
    /\ \E r \in {add_filter(heap, feeds, store, "f1", filter_type, term)} :
           Ran("add_filter", "f1", Typed(NoLimit, filter_type), r)

\* the command set_age_filter f1 <minutes>
ChainSetAgeFilter(minutes) ==
    /\ last.op = "init"
    /\ Len(feeds["f1"].filters) < MaxFilters
    /\ \E r \in {set_age_filter(heap, feeds, store, "f1", minutes)} :
           Ran("set_age_filter", "f1", Typed(minutes, ""), r)

\* the command remove_filter f1 <index>
ChainRemoveFilter(index) ==
    /\ last.op = "init"
    /\ \E r \in {remove_filter(heap, feeds, store, "f1", index)} :
           Ran("remove_filter", "f1", Typed(index, ""), r)

NextChain ==
    \/ Serve
    \/ \E t \in ALLOWED_FILTER_TYPES : ChainAddFilter(t, <<"A">>)
    \/ \E m \in Minutes : ChainSetAgeFilter(IntArg(m))
    \/ \E k \in -1..MaxFilters : ChainRemoveFilter(IntArg(k))

SpecChain == InitChain /\ [][NextChain]_vars

\* the sequence s without its element at position i
Without(s, i) == [j \in 1..(Len(s) - 1) |-> IF j < i THEN s[j] ELSE s[j + 1]]

\* C25: remove_filter with a valid index i removes the element at position i
\* of the chain: the new chain is the old one with position i deleted, the
\* other filter objects in their order.
C25_RemovesElementAtIndex ==
    (/\ last.op = "remove_filter"
     /\ last.typed.kind = "int"
     /\ 0 <= last.typed.n
     /\ last.typed.n < Len(last.preFeeds["f1"].filters)) =>
        feeds["f1"].filters = Without(last.preFeeds["f1"].filters, last.typed.n + 1)

(***************************************************************************)
(* Properties of the limit of dump_feed and of the history, under SpecDump. *)
(***************************************************************************)
\* C27: dump_feed with an integer limit n displays at most n entries, none
\* when n <= 0; every entry displayed is among the first n of the filtered
\* list and was not seen before the command.
C27_AtMostLimitDisplayed ==
    (last.op = "dump_feed" /\ last.limit.kind = "int") =>
        /\ Len(last.displayed) <= Max(last.limit.n, 0)
        /\ \A i \in DOMAIN last.displayed :
               /\ \E j \in DOMAIN last.filtered :
                      j <= last.limit.n /\ last.filtered[j] = last.displayed[i]
               /\ last.displayed[i].link \notin Range(last.preHist)

\* the links that the last command added to the history
NewlySeen == Range(entry_history) \ Range(last.preHist)

\* C29: the history holds only links of entries that were displayed: the
\* links a dump adds are links of entries it displayed, which the filter
\* chain of the feed accepted and the limit did not cut off, and a dump that
\* failed adds none.
C29_HistoryOnlyDisplayed ==
    /\ Range(entry_history) \subseteq shown
    /\ last.op \in {"dump_feed", "dump_all"} =>
           NewlySeen \subseteq Range(LinksOf(last.displayed))
    /\ (last.op = "dump_feed" /\ last.feed \in DOMAIN feeds) =>
           \A l \in NewlySeen :
               /\ \E j \in DOMAIN last.doc.entries :
                      /\ last.doc.entries[j].link = l
                      /\ accept_entry(heap, feeds[last.feed], last.doc.entries[j])
               /\ last.limit.kind = "absent" =>
                      \E j \in 1..DEFAULT_STORY_LIMIT :
                          j <= Len(last.filtered) /\ last.filtered[j].link = l
               /\ (last.limit.kind = "int" /\ last.limit.n >= 0) =>
                      \E j \in 1..last.limit.n :
                          j <= Len(last.filtered) /\ last.filtered[j].link = l
    /\ (/\ last.op = "dump_feed"
        /\ \/ last.exc # "none"
           \/ last.msgs \in {<<"SORRY">>, <<"FEED_NOT_FOUND_ERROR">>})
           => entry_history = last.preHist

\* C29 happens: a dump with the limit 1 displayed and recorded the first of
\* two filtered entries and left the link of the second out of the history
C29_Witness ==
    /\ last.op = "dump_feed"
    /\ last.limit = IntArg(1)
    /\ Len(last.filtered) = 2
    /\ last.filtered[1].link \in NewlySeen
    /\ last.filtered[2].link \notin Range(entry_history)
    /\ last.displayed = <<last.filtered[1]>>

====
